---- MODULE Spec2Model ----
(***************************************************************************)
(* The local service supervisor of happy-cli (src/server/serverManager.ts) *)
(* as a state machine.  One "invocation" is one CLI process holding its    *)
(* own ServerManager singleton; every invocation shares the PID file and   *)
(* the operating system's process table.  Each action is one synchronous   *)
(* stretch of a method between two awaits; operating-system events (a      *)
(* process exiting) interleave between them.                               *)
(***************************************************************************)
EXTENDS Integers, Sequences, FiniteSets, TLC

\* ------------------------------------------------------------------ bounds
\* Process identifiers 1..MaxPid.  Pid 1 is a process that may pre-exist the
\* run (a service started by an earlier invocation, or an unrelated process);
\* pids 2..MaxPid are handed out to the children spawned during the run.
MaxPid == 3

\* The calls of track made in one run of the analytics model.
MaxTracks == 3

\* ------------------------------------------------------- program constants
ReadyTimeout == 15000
PollInterval == 500
HealthTimeout == 3000
GracePeriod == 2000
KeepLast == 1000

\* A pid that is no pid: null from getServerPid, NaN from parseInt, the
\* undefined pid of a child that could not be created.  All are falsy.
NoPid == 0

Pids == 1..MaxPid

\* The read end of a process's output pipes: none are tracked (NoPipe), an
\* invocation holds it (its number), its holder has exited (ClosedPipe), or
\* the process died writing to the closed pipe (EpipeDeath).
NoPipe == 0
ClosedPipe == -1
EpipeDeath == -2

\* The invocations of the tool; the sequential specification runs the first.
Invocations == {1, 2}
Single == {1}

\* Outcomes of the HTTP GET of the health check.
HttpOutcomes == {"ok", "non_ok", "net_error", "abort"}
\* How long one health check takes: answered at once, or cut at its timeout.
PollDurations == {0, HealthTimeout}
\* Outcomes of child_process.spawn.
SpawnOutcomes == {"child", "child_stubborn", "throws", "async_error"}

VARIABLES
    pidFile,        \* the PID file: [exists, text]; text NoPid is unparsable
    procState,      \* pid -> "free" | "alive" | "stubborn" | "foreign" | "dead"
    nextPid,        \* the pid the next spawned child gets
    pc,             \* invocation -> position in the code
    top,            \* invocation -> the operation its caller invoked
    serverProcess,  \* invocation -> this.serverProcess: [present, pid]
    frame,          \* invocation -> the locals of the running call:
                    \*   rollback: stopServer was called by startServer
                    \*   pid:      const pid in getServerPid / stopServer
                    \*   elapsed:  Date.now() - startTime in waitForServerReady
                    \*   http:     outcome of the latest poll of waitForServerReady
    checked,        \* invocation -> outcome of ensureServerRunning's own check
    log,            \* invocation -> effects of the current call, in order
    result,         \* invocation -> what the latest call returned
    pipes,          \* pid -> who reads the stdout and stderr pipes of the process
    appended,       \* invocation -> outcome of the latest appendToLogFile run by
                    \* its output listeners: "none" | "ok" | "failed"
    pure,           \* the latest application of a function of the module that
                    \* reads no state of the supervisor: its inputs and outputs
    analytics       \* LocalAnalytics: the analytics file and the calls made

vars == <<pidFile, procState, nextPid, pc, top, serverProcess, frame, checked,
          log, result, pipes, appended, pure, analytics>>

\* ------------------------------------------------------------ pure helpers
NoResult ==
    [op |-> "none", ok |-> FALSE, pid |-> NoPid, why |-> "none", stop |-> "none",
     http |-> "none"]

NoFrame == [rollback |-> FALSE, pid |-> NoPid, elapsed |-> 0, http |-> "none"]

Ev(e, p) == [e |-> e, pid |-> p]

Has(i, e) == \E k \in 1..Len(log[i]) : log[i][k].e = e

IndexOf(i, e) == IF Has(i, e) THEN CHOOSE k \in 1..Len(log[i]) : log[i][k].e = e ELSE 0

\* isServerRunning: response.ok of a received response; a rejected fetch
\* (network failure, abort at the 3 s timeout) is caught and gives false.
IsServerRunningMutStatus(outcome) == outcome \in {"ok", "non_ok"}

IsServerRunning(outcome) ==
    IF outcome \in {"ok", "non_ok"} THEN outcome = "ok" ELSE FALSE

\* Does isServerRunning let an exception out?  Its whole body is in try/catch.
IsServerRunningThrows(outcome) == FALSE

\* process.kill(pid, sig) succeeds: the process exists and may be signalled.
\* NaN raises a TypeError, a missing process ESRCH, a foreign one EPERM.
CanSignal(pid) == pid \in Pids /\ procState[pid] \in {"alive", "stubborn"}

\* isProcessRunning: process.kill(pid, 0) did not throw.
IsProcessRunningMutAnyPid(pid) == pid \in Pids

IsProcessRunning(pid) == CanSignal(pid)

\* A process exists, whoever owns it.
Live(pid) == pid \in Pids /\ procState[pid] \in {"alive", "stubborn", "foreign"}

\* What getServerPid would return in the current state.
RecordedPid ==
    IF pidFile.exists /\ IsProcessRunning(pidFile.text) THEN pidFile.text ELSE NoPid

Absent == [exists |-> FALSE, text |-> NoPid]

\* No pure function has been applied yet.
NoPure ==
    [fn |-> "none", config |-> <<>>, user |-> "", healthPort |-> 0, merged |-> <<>>,
     candidates |-> <<>>, path |-> 0, threw |-> FALSE,
     parentEnv |-> <<>>, childEnv |-> <<>>]

\* JSON.stringify(recentEvents) and what getStoredEvents makes of the file:
\* state "json" holds an array of events, "absent" is no file, "corrupt" is
\* text that JSON.parse rejects.  Events are named by the order of tracking.
StoreOf(state, events) == [state |-> state, events |-> events]

\* The events a..b in order.
Range(a, b) == [k \in 1..(b - a + 1) |-> a + k - 1]

\* The analytics of a tool that has tracked the events 1..k and stored each:
\*   file:    the analytics file
\*   history: the events stored since the file was last cleared
\*   next:    the event the next track records
\*   calls:   the calls of track made in this run
\*   last:    the latest call and the outcome of its write
Tracked(k) ==
    [file |-> IF k = 0 THEN StoreOf("absent", <<>>) ELSE StoreOf("json", Range(1, k)),
     history |-> Range(1, k), next |-> k + 1, calls |-> 0,
     last |-> <<"none", "none">>]

NoAnalytics == Tracked(0)

\* --------------------------------------------------------------- initially
Init ==
    /\ pidFile \in {Absent, [exists |-> TRUE, text |-> NoPid], [exists |-> TRUE, text |-> 1]}
    /\ procState \in {[p \in Pids |-> IF p = 1 THEN s ELSE "free"] :
                          s \in {"dead", "alive", "stubborn", "foreign"}}
    /\ nextPid = 2
    /\ pipes = [p \in Pids |-> NoPipe]
    /\ pc = [i \in Invocations |-> "idle"]
    /\ top = [i \in Invocations |-> "none"]
    /\ serverProcess = [i \in Invocations |-> [present |-> FALSE, pid |-> NoPid]]
    /\ frame = [i \in Invocations |-> NoFrame]
    /\ checked = [i \in Invocations |-> "none"]
    /\ log = [i \in Invocations |-> <<>>]
    /\ result = [i \in Invocations |-> NoResult]
    /\ appended = [i \in Invocations |-> "none"]
    /\ pure = NoPure
    /\ analytics = NoAnalytics

\* ------------------------------------------------------- calls and returns
Begin(i, op, first) ==
    /\ pc[i] = "idle"
    /\ pc' = [pc EXCEPT ![i] = first]
    /\ top' = [top EXCEPT ![i] = op]
    /\ frame' = [frame EXCEPT ![i] = NoFrame]
    /\ checked' = [checked EXCEPT ![i] = "none"]
    /\ log' = [log EXCEPT ![i] = <<>>]
    /\ result' = [result EXCEPT ![i] = NoResult]
    /\ UNCHANGED <<pidFile, procState, nextPid, pipes, serverProcess, appended, pure, analytics>>

\* The top-level operation returns to its caller; its locals are gone.
ReturnHttp(i, ok, pid, why, stop, http) ==
    /\ pc' = [pc EXCEPT ![i] = "idle"]
    /\ frame' = [frame EXCEPT ![i] = NoFrame]
    /\ result' = [result EXCEPT ![i] =
           [op |-> top[i], ok |-> ok, pid |-> pid, why |-> why, stop |-> stop,
            http |-> http]]
    /\ UNCHANGED <<appended, pure, analytics>>

Return(i, ok, pid, why, stop) == ReturnHttp(i, ok, pid, why, stop, "none")

\* The call goes on at `where` with the locals f.
GotoWith(i, where, f) ==
    /\ pc' = [pc EXCEPT ![i] = where]
    /\ frame' = [frame EXCEPT ![i] = f]
    /\ UNCHANGED <<result, appended, pure, analytics>>

Goto(i, where) == GotoWith(i, where, frame[i])

Logged(i, e, p) == log' = [log EXCEPT ![i] = Append(@, Ev(e, p))]

\* stopServer returns; when startServer called it as rollback, startServer
\* ignores the value and returns false.
StopReturnMutCatchTrue(i, ok) ==
    IF frame[i].rollback
    THEN Return(i, FALSE, NoPid, "timeout", "true")
    ELSE Return(i, TRUE, NoPid, "stop", "true")

StopReturn(i, ok) ==
    IF frame[i].rollback
    THEN Return(i, FALSE, NoPid, "timeout", IF ok THEN "true" ELSE "false")
    ELSE Return(i, ok, NoPid, "stop", IF ok THEN "true" ELSE "false")

\* ------------------------------------------------------ isServerRunning
CallIsRunning(i) == Begin(i, "isRunning", "is_running")

IsRunningDone(i, o) ==
    /\ pc[i] = "is_running"
    /\ IF IsServerRunningThrows(o)
       THEN ReturnHttp(i, FALSE, NoPid, "threw", "none", o)
       ELSE ReturnHttp(i, IsServerRunning(o), NoPid, "health", "none", o)
    /\ UNCHANGED <<pidFile, procState, nextPid, pipes, top, serverProcess, checked, log>>

\* -------------------------------------------------- ensureServerRunning
CallEnsure(i) == Begin(i, "ensure", "ens_check")

\* The branch of ensureServerRunning after its health check: start the server?
EnsureStartsMutAlways(healthy) == TRUE

EnsureStarts(healthy) == ~healthy

EnsureCheck(i, o) ==
    /\ pc[i] = "ens_check"
    /\ checked' = [checked EXCEPT ![i] = o]
    /\ IF IsServerRunningThrows(o)
       THEN Return(i, FALSE, NoPid, "threw", "none")
       ELSE IF EnsureStarts(IsServerRunning(o))
            THEN Goto(i, "start_find")
            ELSE Return(i, TRUE, NoPid, "healthy", "none")
    /\ UNCHANGED <<pidFile, procState, nextPid, pipes, top, serverProcess, log>>

\* ----------------------------------------------------------- startServer
CallStart(i) == Begin(i, "start", "start_find")

\* if (!serverPath): no explicit path and no discovered one.
NoServerPathMutIgnored(found) == FALSE

NoServerPath(found) == ~found

\* config.serverPath || await this.findServerPath(); then mkdir is issued.
StartFind(i, found) ==
    /\ pc[i] = "start_find"
    /\ IF NoServerPath(found)
       THEN Return(i, FALSE, NoPid, "no_path", "none")
       ELSE Goto(i, "start_mkdir")
    /\ IF found THEN UNCHANGED log ELSE Logged(i, "no_path", NoPid)
    /\ UNCHANGED <<pidFile, procState, nextPid, pipes, top, serverProcess, checked>>

\* The text startServer writes to the PID file for the child's pid.
PidTextMutStale(pid) == pidFile

PidText(pid) == [exists |-> TRUE, text |-> pid]

\* Where startServer goes on after a spawn that gave a pid: the writeFile of
\* the PID file comes before waitForServerReady.
AfterSpawnMutPollFirst == "wait_poll"

AfterSpawn == "start_write"

\* mkdir completes; spawn runs in the same synchronous stretch.
StartSpawn(i, mkdirOk, outcome) ==
    /\ pc[i] = "start_mkdir"
    /\ IF ~mkdirOk
       THEN /\ Return(i, FALSE, NoPid, "mkdir_failed", "none")
            /\ Logged(i, "mkdir_failed", NoPid)
            /\ UNCHANGED <<procState, nextPid, pipes, serverProcess>>
       ELSE CASE outcome = "throws" ->
                 /\ Return(i, FALSE, NoPid, "spawn_threw", "none")
                 /\ log' = [log EXCEPT ![i] =
                                @ \o <<Ev("mkdir", NoPid), Ev("spawn_threw", NoPid)>>]
                 /\ UNCHANGED <<procState, nextPid, pipes, serverProcess>>
              [] outcome = "async_error" ->
                 /\ serverProcess' = [serverProcess EXCEPT ![i] =
                                         [present |-> TRUE, pid |-> NoPid]]
                 /\ log' = [log EXCEPT ![i] =
                                @ \o <<Ev("mkdir", NoPid), Ev("spawn_error", NoPid)>>]
                 /\ Goto(i, "error_tick")
                 /\ UNCHANGED <<procState, nextPid, pipes>>
              [] OTHER ->
                 /\ nextPid \in Pids
                 /\ procState' = [procState EXCEPT ![nextPid] =
                                     IF outcome = "child" THEN "alive" ELSE "stubborn"]
                 /\ serverProcess' = [serverProcess EXCEPT ![i] =
                                         [present |-> TRUE, pid |-> nextPid]]
                 /\ nextPid' = nextPid + 1
                 /\ pipes' = [pipes EXCEPT ![nextPid] = i]
                 /\ log' = [log EXCEPT ![i] =
                                @ \o <<Ev("mkdir", NoPid), Ev("spawn", nextPid)>>]
                 /\ Goto(i, AfterSpawn)
    /\ UNCHANGED <<pidFile, top, checked>>

\* The pipes after the process of invocation i has ended: the read ends it
\* held are closed.
ClosedBy(i) == [p \in Pids |-> IF pipes[p] = i THEN ClosedPipe ELSE pipes[p]]

\* The child's 'error' event has no listener: emitting it throws outside
\* startServer's try block and, with no process-level handler installed,
\* ends the invocation.
UnhandledError(i) ==
    /\ pc[i] = "error_tick"
    /\ pc' = [pc EXCEPT ![i] = "crashed"]
    /\ frame' = [frame EXCEPT ![i] = NoFrame]
    /\ result' = [result EXCEPT ![i] =
           [op |-> top[i], ok |-> FALSE, pid |-> NoPid, why |-> "unhandled_error",
            stop |-> "none", http |-> "none"]]
    /\ pipes' = ClosedBy(i)
    /\ UNCHANGED <<pidFile, procState, nextPid, top, serverProcess, checked, log,
                   appended, pure, analytics>>

\* The user runs the tool again after it crashed: a fresh ServerManager.
Relaunch(i) ==
    /\ pc[i] = "crashed"
    /\ pc' = [pc EXCEPT ![i] = "idle"]
    /\ serverProcess' = [serverProcess EXCEPT ![i] = [present |-> FALSE, pid |-> NoPid]]
    /\ appended' = [appended EXCEPT ![i] = "none"]
    /\ UNCHANGED <<pidFile, procState, nextPid, pipes, top, frame, checked, log, result,
                   pure, analytics>>

\* writeFile completes; waitForServerReady starts and issues its first poll.
StartWrite(i, ok) ==
    /\ pc[i] = "start_write"
    /\ IF ok
       THEN /\ pidFile' = PidText(serverProcess[i].pid)
            /\ Logged(i, "write", serverProcess[i].pid)
            /\ Goto(i, "wait_poll")
       ELSE /\ Logged(i, "write_failed", serverProcess[i].pid)
            /\ Return(i, FALSE, NoPid, "write_failed", "none")
            /\ UNCHANGED pidFile
    /\ UNCHANGED <<procState, nextPid, pipes, top, serverProcess, checked>>

\* ---------------------------------------------------- waitForServerReady
\* A poll completes after d ms.  Healthy: unref and return true.  Otherwise
\* the 500 ms sleep is issued.
WaitPoll(i, o, d) ==
    /\ pc[i] = "wait_poll"
    /\ IF IsServerRunningThrows(o)
       THEN Return(i, FALSE, NoPid, "caught", "none")
       ELSE IF IsServerRunning(o)
            THEN ReturnHttp(i, TRUE, serverProcess[i].pid, "ready", "none", o)
            ELSE GotoWith(i, "wait_sleep",
                          [frame[i] EXCEPT !.elapsed = @ + d, !.http = o])
    /\ UNCHANGED <<pidFile, procState, nextPid, pipes, top, serverProcess, checked, log>>

\* The loop condition of waitForServerReady.
LoopContinuesMutInclusive(t) == t <= ReadyTimeout

LoopContinues(t) == t < ReadyTimeout

\* What startServer does when waitForServerReady returned false: stopServer,
\* whose getServerPid issues its readFile.
NotReadyMutRetry(i) == GotoWith(i, "start_mkdir", NoFrame)

NotReadyMutNoRollback(i) == Return(i, FALSE, NoPid, "timeout", "none")

NotReady(i) == GotoWith(i, "getpid_read", [NoFrame EXCEPT !.rollback = TRUE])

\* The sleep ends; the loop condition is evaluated.
WaitSleep(i) ==
    /\ pc[i] = "wait_sleep"
    /\ IF LoopContinues(frame[i].elapsed + PollInterval)
       THEN /\ GotoWith(i, "wait_poll", [frame[i] EXCEPT !.elapsed = @ + PollInterval])
            /\ UNCHANGED log
       ELSE /\ Logged(i, "timeout", NoPid)
            /\ NotReady(i)
    /\ UNCHANGED <<pidFile, procState, nextPid, pipes, top, serverProcess, checked>>

\* ----------------------------------------------------------- getServerPid
\* The process table after a signal is delivered to pid.  Signal 0 only
\* tests for the process; SIGTERM ends a process that honours it.
Delivered(sig, pid) ==
    [procState EXCEPT ![pid] =
        IF sig = "0"
        THEN @
        ELSE IF sig = "SIGKILL" \/ procState[pid] = "alive" THEN "dead" ELSE @]

\* The signal isProcessRunning passes to process.kill.
ProbeSignalMutTerm == "SIGTERM"

ProbeSignal == "0"

\* The process table after isProcessRunning(pid): the kill throws, and does
\* nothing, for a pid that cannot be signalled.
Probed(pid) == IF CanSignal(pid) THEN Delivered(ProbeSignal, pid) ELSE procState

CallGetPid(i) == Begin(i, "getPid", "getpid_read")

CallStop(i) == Begin(i, "stop", "getpid_read")

\* parseInt(pidStr.trim()): NaN for text that is no number.
ParsePid(file) == file.text

\* getServerPid hands pid (or null) to whoever awaited it: the caller of the
\* tool's API, or stopServer, which then signals or goes on to its unlink.
GetPidReturnsMutHandle(i, pid) ==
    IF top[i] = "getPid"
    THEN Return(i, pid # NoPid, pid, "getPid", "none")
    ELSE GotoWith(i, IF pid # NoPid THEN "stop_term" ELSE "stop_unlink",
                  [frame[i] EXCEPT !.pid =
                      IF pid # NoPid THEN serverProcess[i].pid ELSE pid])

GetPidReturns(i, pid) ==
    IF top[i] = "getPid"
    THEN Return(i, pid # NoPid, pid, "getPid", "none")
    ELSE GotoWith(i, IF pid # NoPid THEN "stop_term" ELSE "stop_unlink",
                  [frame[i] EXCEPT !.pid = pid])

\* The else branch of getServerPid: the record is stale, unlink is issued.
StaleRecordMutKeep(i, pid) ==
    /\ GetPidReturns(i, NoPid)
    /\ Logged(i, "stale", pid)

StaleRecord(i, pid) ==
    /\ GotoWith(i, "getpid_unlink", [frame[i] EXCEPT !.pid = pid])
    /\ Logged(i, "stale", pid)

\* readFile completes.  A missing file throws into the catch: null.  Else
\* the text is parsed and the process probed in the same stretch.
GetPidRead(i) ==
    /\ pc[i] = "getpid_read"
    /\ IF ~pidFile.exists
       THEN /\ GetPidReturns(i, NoPid)
            /\ Logged(i, "no_file", NoPid)
       ELSE IF IsProcessRunning(ParsePid(pidFile))
            THEN /\ GetPidReturns(i, ParsePid(pidFile))
                 /\ Logged(i, "found", ParsePid(pidFile))
            ELSE StaleRecord(i, ParsePid(pidFile))
    /\ procState' = IF pidFile.exists THEN Probed(ParsePid(pidFile)) ELSE procState
    /\ UNCHANGED <<pidFile, nextPid, pipes, top, serverProcess, checked>>

\* The file after fs.unlink: gone, or as it was when the unlink failed (the
\* rejection is swallowed by .catch(() => {})).
UnlinkedMutKeep(ok) == pidFile

Unlinked(ok) == IF ok THEN Absent ELSE pidFile

\* The unlink of the stale record completes; getServerPid returns null.
GetPidUnlink(i, ok) ==
    /\ pc[i] = "getpid_unlink"
    /\ pidFile' = Unlinked(ok)
    /\ Logged(i, IF ok THEN "unlink" ELSE "unlink_failed", NoPid)
    /\ GetPidReturns(i, NoPid)
    /\ UNCHANGED <<procState, nextPid, pipes, top, serverProcess, checked>>

\* ------------------------------------------------------------- stopServer
\* process.kill(pid, 'SIGTERM'); then the grace timer is set.  A kill that
\* throws goes to the catch of stopServer: return false.
StopTerm(i) ==
    /\ pc[i] = "stop_term"
    /\ IF CanSignal(frame[i].pid)
       THEN /\ procState' = Delivered("SIGTERM", frame[i].pid)
            /\ Logged(i, "SIGTERM", frame[i].pid)
            /\ Goto(i, "stop_grace")
       ELSE /\ Logged(i, "SIGTERM_threw", frame[i].pid)
            /\ StopReturn(i, FALSE)
            /\ UNCHANGED procState
    /\ UNCHANGED <<pidFile, nextPid, pipes, top, serverProcess, checked>>

\* The condition of the force kill: is the process still running?
ForceKillMutNever(pid) == FALSE

ForceKill(pid) == IsProcessRunning(pid)

\* The 2000 ms grace timer fires; liveness is checked again.
StopGrace(i) ==
    /\ pc[i] = "stop_grace"
    /\ log' = [log EXCEPT ![i] =
                  @ \o <<Ev("grace", GracePeriod),
                         Ev(IF IsProcessRunning(frame[i].pid)
                            THEN "still_alive" ELSE "gone", frame[i].pid)>>]
    /\ Goto(i, IF ForceKill(frame[i].pid) THEN "stop_kill" ELSE "stop_unlink")
    /\ procState' = Probed(frame[i].pid)
    /\ UNCHANGED <<pidFile, nextPid, pipes, top, serverProcess, checked>>

\* process.kill(pid, 'SIGKILL'); then the unlink is issued.
StopKill(i) ==
    /\ pc[i] = "stop_kill"
    /\ IF CanSignal(frame[i].pid)
       THEN /\ procState' = Delivered("SIGKILL", frame[i].pid)
            /\ Logged(i, "SIGKILL", frame[i].pid)
            /\ Goto(i, "stop_unlink")
       ELSE /\ Logged(i, "SIGKILL_threw", frame[i].pid)
            /\ StopReturn(i, FALSE)
            /\ UNCHANGED procState
    /\ UNCHANGED <<pidFile, nextPid, pipes, top, serverProcess, checked>>

\* The unlink of stopServer completes; stopServer returns true.
StopUnlink(i, ok) ==
    /\ pc[i] = "stop_unlink"
    /\ pidFile' = Unlinked(ok)
    /\ Logged(i, IF ok THEN "unlink" ELSE "unlink_failed", NoPid)
    /\ StopReturn(i, TRUE)
    /\ UNCHANGED <<procState, nextPid, pipes, top, serverProcess, checked>>

\* ------------------------------------------------------ appendToLogFile
\* Does a failed fs.appendFile leave appendToLogFile as a rejection?  The
\* await is inside try/catch, so it does not; a rejection of the promise the
\* listener drops would end the invocation as an unhandled rejection.
AppendThrowsMutPropagates(ok) == ~ok

AppendThrows(ok) == FALSE

\* The child of invocation i writes to its stdout or stderr: the 'data'
\* listener that startServer attached runs appendToLogFile, whose
\* fs.appendFile succeeds or fails.
ChildOutput(i, ok) ==
    /\ pc[i] # "crashed"
    /\ serverProcess[i].present
    /\ CanSignal(serverProcess[i].pid)
    /\ appended' = [appended EXCEPT ![i] = IF ok THEN "ok" ELSE "failed"]
    /\ IF AppendThrows(ok)
       THEN /\ pc' = [pc EXCEPT ![i] = "crashed"]
            /\ frame' = [frame EXCEPT ![i] = NoFrame]
            /\ result' = [result EXCEPT ![i] =
                   [op |-> top[i], ok |-> FALSE, pid |-> NoPid,
                    why |-> "unhandled_rejection", stop |-> "none", http |-> "none"]]
       ELSE UNCHANGED <<pc, frame, result>>
    /\ UNCHANGED <<pidFile, procState, nextPid, pipes, top, serverProcess, checked, log,
                   pure, analytics>>

\* ------------------------------------------------------- the environment
\* The tool's process exits between two calls.  Its handle and listeners are
\* gone and the pipes it read are closed; a later launch starts afresh.
Exit(i) ==
    /\ pc[i] = "idle"
    /\ top[i] # "none"
    /\ serverProcess' = [serverProcess EXCEPT ![i] = [present |-> FALSE, pid |-> NoPid]]
    /\ appended' = [appended EXCEPT ![i] = "none"]
    /\ pipes' = ClosedBy(i)
    /\ UNCHANGED <<pidFile, procState, nextPid, pc, top, frame, checked, log,
                   result, pure, analytics>>

\* A child spawned with stdio ['ignore', 'pipe', 'pipe'] writes to a pipe whose
\* reader has exited: the write fails with EPIPE and the child dies of it.
BrokenPipe(p) ==
    /\ pipes[p] = ClosedPipe
    /\ CanSignal(p)
    /\ procState' = [procState EXCEPT ![p] = "dead"]
    /\ pipes' = [pipes EXCEPT ![p] = EpipeDeath]
    /\ UNCHANGED <<pidFile, nextPid, pc, top, serverProcess, frame, checked, log,
                   result, appended, pure, analytics>>

\* A process exits on its own (a crash, or the end of a graceful shutdown).
ProcExit(p) ==
    /\ procState[p] \in {"alive", "stubborn"}
    /\ procState' = [procState EXCEPT ![p] = "dead"]
    /\ UNCHANGED <<pidFile, nextPid, pipes, pc, top, serverProcess, frame, checked, log,
                   result, appended, pure, analytics>>

\* ------------------------------------------------------------------- next
Step(i) ==
    \/ CallIsRunning(i)
    \/ \E o \in HttpOutcomes : IsRunningDone(i, o)
    \/ CallEnsure(i)
    \/ \E o \in HttpOutcomes : EnsureCheck(i, o)
    \/ CallStart(i)
    \/ \E found \in BOOLEAN : StartFind(i, found)
    \/ \E ok \in BOOLEAN, outcome \in SpawnOutcomes : StartSpawn(i, ok, outcome)
    \/ UnhandledError(i)
    \/ Relaunch(i)
    \/ \E ok \in BOOLEAN : StartWrite(i, ok)
    \/ \E o \in HttpOutcomes, d \in PollDurations : WaitPoll(i, o, d)
    \/ WaitSleep(i)
    \/ CallGetPid(i)
    \/ CallStop(i)
    \/ GetPidRead(i)
    \/ \E ok \in BOOLEAN : GetPidUnlink(i, ok)
    \/ StopTerm(i)
    \/ StopGrace(i)
    \/ StopKill(i)
    \/ \E ok \in BOOLEAN : StopUnlink(i, ok)
    \/ \E ok \in BOOLEAN : ChildOutput(i, ok)
    \/ Exit(i)

Environment ==
    \/ \E p \in Pids : ProcExit(p)
    \/ \E p \in Pids : BrokenPipe(p)

\* One invocation of the tool at a time.
Next == (\E i \in Single : Step(i)) \/ Environment

Spec == Init /\ [][Next]_vars

\* ------------------------------------------------------------ scheduling
\* The steps of a call already under way.  Node's event loop runs every
\* continuation that is ready: a pending file operation completes, a timer
\* fires, a health check answers or is aborted at its 3 s timeout.  Starting a
\* call and launching the tool again are choices of the user, not steps.
Progress(i) ==
    \/ \E o \in HttpOutcomes : IsRunningDone(i, o)
    \/ \E o \in HttpOutcomes : EnsureCheck(i, o)
    \/ \E found \in BOOLEAN : StartFind(i, found)
    \/ \E ok \in BOOLEAN, outcome \in SpawnOutcomes : StartSpawn(i, ok, outcome)
    \/ UnhandledError(i)
    \/ \E ok \in BOOLEAN : StartWrite(i, ok)
    \/ \E o \in HttpOutcomes, d \in PollDurations : WaitPoll(i, o, d)
    \/ WaitSleep(i)
    \/ GetPidRead(i)
    \/ \E ok \in BOOLEAN : GetPidUnlink(i, ok)
    \/ StopTerm(i)
    \/ StopGrace(i)
    \/ StopKill(i)
    \/ \E ok \in BOOLEAN : StopUnlink(i, ok)

\* One invocation at a time, every call under way being run on.
SpecLive == Spec /\ \A i \in Single : WF_vars(Progress(i))

\* ------------------------------------------------- two racing invocations
\* An invocation of the tool calls ensureServerRunning once in its life.
EnsureOnce(i) == top[i] = "none" /\ CallEnsure(i)

\* The steps of that one call; every poll of the readiness wait runs into its
\* 3 s abort or answers just before it.
StepRace(i) ==
    \/ EnsureOnce(i)
    \/ \E o \in HttpOutcomes : EnsureCheck(i, o)
    \/ \E found \in BOOLEAN : StartFind(i, found)
    \/ \E ok \in BOOLEAN, outcome \in SpawnOutcomes : StartSpawn(i, ok, outcome)
    \/ UnhandledError(i)
    \/ \E ok \in BOOLEAN : StartWrite(i, ok)
    \/ \E o \in HttpOutcomes : WaitPoll(i, o, HealthTimeout)
    \/ WaitSleep(i)
    \/ GetPidRead(i)
    \/ \E ok \in BOOLEAN : GetPidUnlink(i, ok)
    \/ StopTerm(i)
    \/ StopGrace(i)
    \/ StopKill(i)
    \/ \E ok \in BOOLEAN : StopUnlink(i, ok)

\* Two invocations of the tool run at once, interleaved step by step.  Neither
\* exits during the race, so no pipe of a child is closed.
NextRace == (\E i \in Invocations : StepRace(i)) \/ (\E p \in Pids : ProcExit(p))

SpecRace == Init /\ [][NextRace]_vars

\* -------------------------------------- the config of ensureServerRunning
\* The fields of ServerConfig; serverPath is optional and has no default.
Fields == {"databaseUrl", "redisUrl", "masterSecret", "port", "serverPath"}

DefaultPort == 3005

\* process.env.USER: "" stands for unset or empty, both falsy.
Users == {"", "alice"}

\* Ports a caller may pass: port 0, the default, another one.
Ports == {0, DefaultPort, 4000}

\* The Partial<ServerConfig> of a caller: any subset of the fields is present.
\* A caller that passes no config at all gives the same as the empty one.
Configs ==
    {[f \in D |-> CASE f = "databaseUrl" -> "caller_db"
                    [] f = "redisUrl" -> "caller_redis"
                    [] f = "masterSecret" -> "caller_secret"
                    [] f = "port" -> pt
                    [] f = "serverPath" -> "caller_path"] :
         D \in SUBSET Fields, pt \in Ports}

\* const defaultConfig = { databaseUrl, redisUrl, masterSecret, port, ...
DefaultConfig(user) ==
    [databaseUrl |-> IF user # "" THEN <<"postgresql", user>> ELSE <<"postgresql", "postgres">>,
     redisUrl |-> "redis://localhost:6380",
     masterSecret |-> "development-secret-key-please-change-in-production",
     port |-> DefaultPort]

\* ... , ...config }: every own property of config replaces the default.
MergedConfig(config, user) ==
    [f \in DOMAIN DefaultConfig(user) \cup DOMAIN config |->
        IF f \in DOMAIN config THEN config[f] ELSE DefaultConfig(user)[f]]

\* config?.port || 3005: the port of the URL that is health-checked.
HealthPort(config) ==
    IF "port" \in DOMAIN config /\ config["port"] # 0
    THEN config["port"]
    ELSE DefaultPort

\* ensureServerRunning computes the URL it checks and the config it starts with.
EnsureConfig(config, user) ==
    /\ pure = NoPure
    /\ pure' = [NoPure EXCEPT !.fn = "ensureConfig", !.config = config,
                              !.user = user,
                              !.healthPort = HealthPort(config),
                              !.merged = MergedConfig(config, user)]
    /\ UNCHANGED <<pidFile, procState, nextPid, pipes, pc, top, serverProcess, frame,
                   checked, log, result, appended, analytics>>

\* ------------------------------------------------------- findServerPath
\* What reading a candidate's package.json gives: readFile rejects, JSON.parse
\* throws, or a manifest with neither, one or both of the accepted marks.
Manifests == {"missing", "invalid", "other", "named", "script", "both"}

\* The candidates in the order of possiblePaths.  The fourth is
\* process.env.HAPPY_SERVER_PATH, "unset" when the variable is unset or empty.
CandidateLists ==
    {<<a, b, c, d>> : a \in Manifests, b \in Manifests, c \in Manifests,
                      d \in Manifests \cup {"unset"}}

\* .filter(Boolean): the positions of the candidates that are tried.
PossiblePaths(cands) ==
    SelectSeq(<<1, 2, 3, 4>>, LAMBDA k : cands[k] # "unset")

\* packageJson.name === 'happy-server' || packageJson.scripts?.start
AcceptsMutNameOnly(manifest) == manifest \in {"named", "both"}

Accepts(manifest) == manifest \in {"named", "script", "both"}

\* Does an exception leave the body of the loop?  The read, the parse and the
\* test are all inside the try block.
CandidateThrows(manifest) == FALSE

\* The for loop: the position of the first accepted candidate, 0 for null.
RECURSIVE FirstAccepted(_, _)
FirstAccepted(paths, cands) ==
    IF paths = <<>>
    THEN 0
    ELSE IF Accepts(cands[Head(paths)])
         THEN Head(paths)
         ELSE FirstAccepted(Tail(paths), cands)

FindServerPathOf(cands) == FirstAccepted(PossiblePaths(cands), cands)

\* findServerPath runs over one arrangement of the candidate directories.
FindServerPath(cands) ==
    /\ pure = NoPure
    /\ pure' = [NoPure EXCEPT !.fn = "findServerPath", !.candidates = cands,
                              !.path = FindServerPathOf(cands),
                              !.threw = \E k \in 1..4 : CandidateThrows(cands[k])]
    /\ UNCHANGED <<pidFile, procState, nextPid, pipes, pc, top, serverProcess, frame,
                   checked, log, result, appended, analytics>>

\* ------------------------------------------------ the child's environment
\* The variables startServer sets for the child.
Overlaid == {"DATABASE_URL", "REDIS_URL", "HANDY_MASTER_SECRET", "PORT", "NODE_ENV"}

\* Names that process.env may hold: the overlaid ones and one other.
EnvNames == Overlaid \cup {"PATH"}

\* process.env of the tool: any of the names set; NODE_ENV, when set, is
\* empty or names a mode.
ParentEnvs ==
    {[n \in D |-> IF n = "NODE_ENV" THEN mode ELSE "inherited"] :
         D \in SUBSET EnvNames, mode \in {"", "production"}}

\* Number.prototype.toString(): the decimal digits of a port.
RECURSIVE PortText(_)
PortText(n) ==
    IF n < 10 THEN <<n>> ELSE Append(PortText(n \div 10), n % 10)

\* const env = { ...process.env, DATABASE_URL: ..., NODE_ENV: ... }
EnvOfMutInheritedRedis(parent, config) ==
    [n \in DOMAIN parent \cup Overlaid |->
        CASE n = "DATABASE_URL" -> config["databaseUrl"]
          [] n = "REDIS_URL" ->
                 IF n \in DOMAIN parent THEN parent[n] ELSE config["redisUrl"]
          [] n = "HANDY_MASTER_SECRET" -> config["masterSecret"]
          [] n = "PORT" -> PortText(config["port"])
          [] n = "NODE_ENV" ->
                 IF "NODE_ENV" \in DOMAIN parent /\ parent["NODE_ENV"] # ""
                 THEN parent["NODE_ENV"]
                 ELSE "development"
          [] OTHER -> parent[n]]

EnvOf(parent, config) ==
    [n \in DOMAIN parent \cup Overlaid |->
        CASE n = "DATABASE_URL" -> config["databaseUrl"]
          [] n = "REDIS_URL" -> config["redisUrl"]
          [] n = "HANDY_MASTER_SECRET" -> config["masterSecret"]
          [] n = "PORT" -> PortText(config["port"])
          [] n = "NODE_ENV" ->
                 IF "NODE_ENV" \in DOMAIN parent /\ parent["NODE_ENV"] # ""
                 THEN parent["NODE_ENV"]
                 ELSE "development"
          [] OTHER -> parent[n]]

\* startServer prepares the environment of the child from process.env and
\* the config it was given.
PrepareEnv(parent, config, user) ==
    /\ pure = NoPure
    /\ pure' = [NoPure EXCEPT !.fn = "env", !.config = config,
                              !.merged = MergedConfig(config, user),
                              !.parentEnv = parent,
                              !.childEnv = EnvOf(parent, MergedConfig(config, user))]
    /\ UNCHANGED <<pidFile, procState, nextPid, pipes, pc, top, serverProcess, frame,
                   checked, log, result, appended, analytics>>

\* --------------------------------------------------------- LocalAnalytics
\* writeFileSync: done; throws before touching the file (no permission); or
\* throws after truncating it (disk full), leaving text that is no JSON.
WriteOutcomes == {"ok", "fails_intact", "fails_truncated"}

Written(w, events) ==
    CASE w = "ok" -> StoreOf("json", events)
      [] w = "fails_intact" -> analytics.file
      [] w = "fails_truncated" -> StoreOf("corrupt", <<>>)

\* getStoredEvents: [] when the file is absent or cannot be parsed.
GetStoredEvents(file) == IF file.state = "json" THEN file.events ELSE <<>>

\* events.slice(-1000)
RecentEventsMutOffByOne(events) ==
    IF Len(events) <= KeepLast + 1
    THEN events
    ELSE SubSeq(events, Len(events) - KeepLast, Len(events))

RecentEvents(events) ==
    IF Len(events) <= KeepLast
    THEN events
    ELSE SubSeq(events, Len(events) - KeepLast + 1, Len(events))

\* track: storeEvent reads the stored events, pushes the new one, keeps the
\* last 1000 and writes them; every failure is swallowed.
Track(w) ==
    /\ analytics.calls < MaxTracks
    /\ analytics' =
           [file |-> Written(w, RecentEvents(Append(GetStoredEvents(analytics.file),
                                                   analytics.next))),
            history |-> IF w = "ok"
                        THEN Append(analytics.history, analytics.next)
                        ELSE analytics.history,
            next |-> analytics.next + 1,
            calls |-> analytics.calls + 1,
            last |-> <<"track", w>>]
    /\ UNCHANGED <<pidFile, procState, nextPid, pipes, pc, top, serverProcess, frame,
                   checked, log, result, appended, pure>>

\* clearEvents: writes the empty array over a file that exists.
ClearEvents(w) ==
    /\ analytics.file.state # "absent"
    /\ analytics' =
           [analytics EXCEPT !.file = Written(w, <<>>),
                             !.history = IF w = "ok" THEN <<>> ELSE @,
                             !.last = <<"clearEvents", w>>]
    /\ UNCHANGED <<pidFile, procState, nextPid, pipes, pc, top, serverProcess, frame,
                   checked, log, result, appended, pure>>

\* The tool starts with nothing tracked, or with an analytics file that
\* earlier runs filled up to, or one short of, the 1000 events kept.
InitAnalytics ==
    /\ pidFile = Absent
    /\ procState = [p \in Pids |-> IF p = 1 THEN "dead" ELSE "free"]
    /\ nextPid = 2
    /\ pipes = [p \in Pids |-> NoPipe]
    /\ pc = [i \in Invocations |-> "idle"]
    /\ top = [i \in Invocations |-> "none"]
    /\ serverProcess = [i \in Invocations |-> [present |-> FALSE, pid |-> NoPid]]
    /\ frame = [i \in Invocations |-> NoFrame]
    /\ checked = [i \in Invocations |-> "none"]
    /\ log = [i \in Invocations |-> <<>>]
    /\ result = [i \in Invocations |-> NoResult]
    /\ appended = [i \in Invocations |-> "none"]
    /\ pure = NoPure
    /\ analytics \in {Tracked(k) : k \in {0, KeepLast - 1, KeepLast}}

NextAnalytics ==
    \/ \E w \in WriteOutcomes : Track(w)
    \/ \E w \in WriteOutcomes : ClearEvents(w)

SpecAnalytics == InitAnalytics /\ [][NextAnalytics]_vars

\* The functions that read no supervisor state, each run applying one of them
\* to one input.
NextPure ==
    \/ \E config \in Configs, user \in Users : EnsureConfig(config, user)
    \/ \E cands \in CandidateLists : FindServerPath(cands)
    \/ \E parent \in ParentEnvs, config \in Configs : PrepareEnv(parent, config, "")

SpecPure == Init /\ [][NextPure]_vars

\* ================================================================ claims
\* The call of invocation i is over and its caller has the result.
Returned(i) == pc[i] = "idle" /\ result[i].op # "none"

\* startServer ran in the finished call (directly, or under ensureServerRunning
\* after an unhealthy check) and returned true.
StartReturnedTrue(i) ==
    /\ Returned(i)
    /\ result[i].ok
    /\ \/ top[i] = "start"
       \/ top[i] = "ensure" /\ checked[i] # "ok"

\* The pid of the child the current call spawned, NoPid when it spawned none.
SpawnedPid(i) == IF Has(i, "spawn") THEN log[i][IndexOf(i, "spawn")].pid ELSE NoPid

\* The latest effect of the current call.
LastEvent(i) == IF log[i] = <<>> THEN "none" ELSE log[i][Len(log[i])].e

\* C1: whenever the health check of ensureRunning reports healthy, the call
\* returns true at once and has spawned nothing, written or deleted no PID
\* file and sent no signal (its effect log is empty); this holds for a second
\* call made after an earlier one as well.
C1_HealthyEnsureDoesNothing ==
    \A i \in Invocations :
        (top[i] = "ensure" /\ checked[i] = "ok") =>
            /\ pc[i] = "idle"
            /\ result[i].ok
            /\ log[i] = <<>>

\* A later ensureRunning (a child was spawned and recorded before it) that
\* found the service healthy.
C1_Witness ==
    /\ top[1] = "ensure" /\ checked[1] = "ok" /\ pc[1] = "idle"
    /\ nextPid > 2 /\ pidFile.exists /\ pidFile.text = 2

\* C2: when the readiness wait of a start call timed out (no poll ever
\* succeeded), start returns false and getRecordedPid afterwards gives none:
\* the PID file does not name a process that can still be signalled.
C2_RollbackOnTimeout ==
    \A i \in Invocations :
        (pc[i] = "idle" /\ Has(i, "timeout")) =>
            /\ ~result[i].ok
            /\ RecordedPid = NoPid
            /\ ~CanSignal(SpawnedPid(i))

\* A start that spawned a child, recorded it, timed out and signalled it.
C2_Witness ==
    /\ pc[1] = "idle" /\ Has(1, "timeout") /\ Has(1, "write") /\ Has(1, "SIGTERM")
    /\ SpawnedPid(1) = 2

\* C3: in a stop call that found a live recorded pid, SIGTERM comes first,
\* the grace period follows it, the liveness re-check follows the grace
\* period, and SIGKILL is sent exactly when the re-check found the process
\* still alive, right after that re-check.
C3_GracefulThenForceful ==
    \A i \in Invocations :
        LET t == IndexOf(i, "SIGTERM")
            g == IndexOf(i, "grace")
            a == IndexOf(i, "still_alive")
            d == IndexOf(i, "gone")
            k == IF Has(i, "SIGKILL") THEN IndexOf(i, "SIGKILL")
                 ELSE IndexOf(i, "SIGKILL_threw")
            f == IndexOf(i, "found")
        IN  top[i] # "getPid" =>
            /\ (f > 0 /\ pc[i] # "stop_term") =>
                   (t = f + 1 \/ IndexOf(i, "SIGTERM_threw") = f + 1)
            /\ (t > 0 /\ pc[i] # "stop_grace") => g = t + 1
            /\ g > 0 => (t > 0 /\ (a = g + 1 \/ d = g + 1))
            /\ (a > 0 /\ pc[i] # "stop_kill") => k = a + 1
            /\ k > 0 => (a > 0 /\ d = 0 /\ log[i][k].pid = log[i][t].pid)
            /\ d > 0 => k = 0

\* A stop whose target ignored SIGTERM and was then sent SIGKILL.
C3_Witness ==
    /\ pc[1] = "idle" /\ top[1] = "stop" /\ Has(1, "SIGKILL")
    /\ result[1].ok

\* C4: getRecordedPid on a PID file whose recorded process is not running
\* returns none and has attempted the deletion; the file is gone afterwards
\* when the deletion succeeded, and a failed deletion still yields none.
C4_StaleSelfHeal ==
    \A i \in Invocations :
        (pc[i] = "idle" /\ top[i] = "getPid" /\ Has(i, "stale")) =>
            /\ result[i].pid = NoPid
            /\ ~result[i].ok
            /\ LastEvent(i) \in {"unlink", "unlink_failed"}
            /\ LastEvent(i) = "unlink" => ~pidFile.exists

\* getRecordedPid found the record of dead process 1 and removed it.
C4_Witness ==
    /\ pc[1] = "idle" /\ top[1] = "getPid" /\ Has(1, "stale")
    /\ log[1][1].pid = 1 /\ procState[1] = "dead"
    /\ ~pidFile.exists

\* stopServer found no live recorded process: no file, unparsable text, or
\* the pid of a process that does not exist.
NoLiveRecorded(i) ==
    \/ Has(i, "no_file")
    \/ /\ Has(i, "stale")
       /\ LET p == log[i][IndexOf(i, "stale")].pid
          IN  p = NoPid \/ procState[p] = "dead"

NoSignal(i) ==
    \A k \in 1..Len(log[i]) :
        log[i][k].e \notin {"SIGTERM", "SIGKILL", "SIGTERM_threw", "SIGKILL_threw"}

\* C5 as stated: with no live process recorded, stop returns true, sends no
\* signal, and the PID file is absent afterwards.
C5_Original ==
    \A i \in Invocations :
        (Returned(i) /\ top[i] = "stop" /\ NoLiveRecorded(i)) =>
            /\ result[i].ok
            /\ NoSignal(i)
            /\ ~pidFile.exists

\* C5 amended: with no live process recorded, stop returns true, sends no
\* signal and attempts the deletion of the PID file as its last effect; the
\* file is absent afterwards unless that deletion failed.
C5_StopWithoutLiveRecord ==
    \A i \in Invocations :
        (Returned(i) /\ top[i] = "stop" /\ NoLiveRecorded(i)) =>
            /\ result[i].ok
            /\ NoSignal(i)
            /\ LastEvent(i) \in {"unlink", "unlink_failed"}
            /\ LastEvent(i) = "unlink" => ~pidFile.exists

\* stop on the record of dead process 1: true, no signal, file removed.
C5_Witness ==
    /\ Returned(1) /\ top[1] = "stop" /\ Has(1, "stale")
    /\ log[1][1].pid = 1 /\ procState[1] = "dead"
    /\ result[1].ok /\ ~pidFile.exists

\* C6: when a signal sent inside stop raises, stop returns false and the
\* deletion of the PID file is still attempted in that stop call.
C6_CleanupAfterSignalError ==
    \A i \in Invocations :
        (pc[i] = "idle" /\ (Has(i, "SIGTERM_threw") \/ Has(i, "SIGKILL_threw"))) =>
            /\ result[i].stop = "false"
            /\ LastEvent(i) \in {"unlink", "unlink_failed"}

\* C7: a failure to create the child, reported by spawn synchronously or by
\* the child's error event, is caught: the invocation does not end on an
\* unhandled error, and start returns false.
C7_SpawnFailureCaught ==
    \A i \in Invocations :
        (Has(i, "spawn_threw") \/ Has(i, "spawn_error")) =>
            /\ pc[i] # "crashed"
            /\ result[i].why # "unhandled_error"
            /\ pc[i] = "idle" => ~result[i].ok

\* C8: whenever start returns true, the PID file exists and holds the pid of
\* the child that this start call spawned.
C8_StartTrueRecordsChild ==
    \A i \in Invocations :
        StartReturnedTrue(i) =>
            /\ SpawnedPid(i) # NoPid
            /\ pidFile.exists
            /\ pidFile.text = SpawnedPid(i)

\* start returned true on a fresh environment and the file names its child.
C8_Witness ==
    /\ StartReturnedTrue(1) /\ top[1] = "start"
    /\ SpawnedPid(1) = 2 /\ pidFile.text = 2

\* C9: isRunning returns a boolean for every outcome of the GET, never
\* throws, and returns true only for a response with a success status.
C9_IsRunningTotal ==
    \A i \in Invocations :
        (Returned(i) /\ top[i] = "isRunning") =>
            /\ result[i].why = "health"
            /\ result[i].http \in HttpOutcomes
            /\ result[i].ok \in BOOLEAN
            /\ result[i].ok => result[i].http = "ok"

\* isRunning returned false for a request aborted at its timeout.
C9_Witness ==
    /\ Returned(1) /\ top[1] = "isRunning"
    /\ result[1].http = "abort" /\ ~result[1].ok

\* C10: when getRecordedPid, stop or start has returned, a PID file that
\* exists and holds a pid records a live process (a stale file has been
\* deleted before the return).
C10_RecordLiveAtReturn ==
    \A i \in Invocations :
        (Returned(i) /\ top[i] \in {"getPid", "stop", "start"}) =>
            ((pidFile.exists /\ ParsePid(pidFile) # NoPid) => Live(ParsePid(pidFile)))

\* C11: when a call has returned and the in-memory child handle is present,
\* its pid is the pid stored in the PID file.
C11_HandleMatchesRecord ==
    \A i \in Invocations :
        (Returned(i) /\ serverProcess[i].present) =>
            /\ pidFile.exists
            /\ ParsePid(pidFile) = serverProcess[i].pid

\* C12: when no service path is configured and discovery finds none, start
\* returns false at once: no log directory made, no process spawned, no PID
\* file written or deleted, no signal sent: the discovery failure is the
\* only entry of the call's effect log.
C12_DiscoveryFailure ==
    \A i \in Invocations :
        Has(i, "no_path") =>
            /\ pc[i] = "idle"
            /\ ~result[i].ok
            /\ log[i] = <<Ev("no_path", NoPid)>>

\* A start under ensureRunning that found no service directory, with the
\* record of live process 1 left in place.
C12_Witness ==
    /\ Has(1, "no_path") /\ Returned(1) /\ top[1] = "ensure"
    /\ pidFile.exists /\ ParsePid(pidFile) = 1 /\ procState[1] = "alive"

\* C13: getRecordedPid always returns normally; it returns none for an absent
\* and for an unparsable file, and a pid only when the file parsed to that
\* pid and the process could be signalled when it was probed.
C13_GetPidTotal ==
    [][\A i \in Invocations :
          (top[i] = "getPid" /\ pc[i] # "idle" /\ pc'[i] = "idle") =>
              /\ result'[i].why = "getPid"
              /\ result'[i].ok = (result'[i].pid # NoPid)
              /\ (~pidFile.exists \/ ParsePid(pidFile) = NoPid) =>
                     result'[i].pid = NoPid
              /\ result'[i].pid # NoPid =>
                     /\ pc[i] = "getpid_read"
                     /\ pidFile.exists
                     /\ ParsePid(pidFile) = result'[i].pid
                     /\ CanSignal(result'[i].pid)]_vars

\* getRecordedPid returned the pid of live process 1.
C13_Witness ==
    /\ Returned(1) /\ top[1] = "getPid" /\ result[1].pid = 1
    /\ log[1] = <<Ev("found", 1)>>

\* C14: the service instance moves ABSENT -> STARTING -> READY -> STOPPING ->
\* ABSENT and in no other way; in particular STARTING (a child spawned and
\* its pid written) is entered only while the record is ABSENT, that is
\* while the PID file names no process that getRecordedPid would return.
C14_StartingOnlyFromAbsent ==
    [][\A i \in Invocations :
          (pc[i] = "start_write" /\ pc'[i] = "wait_poll") =>
              RecordedPid = NoPid]_vars

\* C15: while start polls for readiness after a spawn that gave a pid, the
\* PID file already holds that pid, so a crash of the supervisor at any
\* point of the polling leaves a file naming the spawned child.
C15_RecordedBeforePolling ==
    \A i \in Invocations :
        (pc[i] \in {"wait_poll", "wait_sleep"} /\ serverProcess[i].pid # NoPid) =>
            /\ SpawnedPid(i) = serverProcess[i].pid
            /\ pidFile.exists
            /\ ParsePid(pidFile) = SpawnedPid(i)

\* The first poll is still outstanding and the file names child 2.
C15_Witness ==
    /\ pc[1] = "wait_poll" /\ frame[1].elapsed = 0
    /\ serverProcess[1].pid = 2 /\ ParsePid(pidFile) = 2

\* C16: waitForReady returns true right after the first poll that succeeds
\* and polls no more; a poll that fails is followed by the 500 ms sleep and
\* then either by the next poll, while the elapsed time is below the
\* timeout, or by the return of false once it has reached the timeout, no
\* poll of that call having succeeded.
C16_WaitForReady ==
    [][\A i \in Invocations :
          /\ (pc[i] = "wait_poll" /\ pc'[i] # "wait_poll") =>
                 \/ /\ pc'[i] = "idle"
                    /\ result'[i].ok /\ result'[i].http = "ok"
                 \/ /\ pc'[i] = "wait_sleep"
                    /\ frame'[i].http \in HttpOutcomes \ {"ok"}
                    /\ frame'[i].elapsed \in {frame[i].elapsed + d : d \in PollDurations}
          /\ (pc[i] = "wait_sleep" /\ pc'[i] # "wait_sleep") =>
                 /\ frame[i].http # "ok"
                 /\ \/ /\ pc'[i] = "wait_poll"
                       /\ frame'[i].elapsed = frame[i].elapsed + PollInterval
                       /\ frame'[i].elapsed < ReadyTimeout
                    \/ /\ pc'[i] = "getpid_read"
                       /\ frame'[i].rollback
                       /\ frame[i].elapsed + PollInterval >= ReadyTimeout]_vars

\* The sleep after a failed poll ends exactly at the timeout.
C16_Witness ==
    /\ pc[1] = "wait_sleep" /\ frame[1].http = "abort"
    /\ frame[1].elapsed + PollInterval = ReadyTimeout

\* C17: two invocations racing through ensureServerRunning are not
\* serialized: whenever one of them completes its write of the PID file, the
\* file from then on names that writer's child, and not the child that the
\* other invocation spawned and recorded before.
C17_LaterWriterWins ==
    [][\A i \in Invocations :
          (pc[i] = "start_write" /\ pc'[i] = "wait_poll") =>
              /\ pidFile'.exists
              /\ ParsePid(pidFile') = SpawnedPid(i)
              /\ \A j \in Invocations \ {i} :
                     Has(j, "write") => ParsePid(pidFile') # SpawnedPid(j)]_vars

\* Both ensure calls saw the server unhealthy, both spawned a child and both
\* wrote the file; both children live, the file names the child of one only.
C17_Witness ==
    /\ \A i \in Invocations :
           /\ top[i] = "ensure" /\ checked[i] # "ok"
           /\ Has(i, "spawn") /\ Has(i, "write")
           /\ CanSignal(SpawnedPid(i))
           /\ pc[i] = "wait_poll"
    /\ SpawnedPid(1) # SpawnedPid(2)
    /\ pidFile.exists /\ ParsePid(pidFile) = SpawnedPid(2)
    /\ ParsePid(pidFile) # SpawnedPid(1)

\* C18: the config ensureServerRunning gives to startServer holds the
\* caller's value for every field the caller supplied and the development
\* default for every other field, and the port whose URL was health-checked
\* is the port of that config.
C18_MergedConfig ==
    pure.fn = "ensureConfig" =>
        /\ \A f \in DOMAIN pure.config : pure.merged[f] = pure.config[f]
        /\ "databaseUrl" \notin DOMAIN pure.config =>
               pure.merged["databaseUrl"][1] = "postgresql"
        /\ "redisUrl" \notin DOMAIN pure.config =>
               pure.merged["redisUrl"] = "redis://localhost:6380"
        /\ "masterSecret" \notin DOMAIN pure.config =>
               pure.merged["masterSecret"] =
                   "development-secret-key-please-change-in-production"
        /\ "port" \notin DOMAIN pure.config => pure.merged["port"] = 3005
        /\ pure.healthPort = pure.merged["port"]

\* C19: findServerPath returns the first candidate, in the order sibling,
\* one level up, nested child, environment override, whose manifest has the
\* expected name or a start script; it returns none when no candidate has
\* one, a missing or unreadable manifest included, and never raises.
C19_FirstMatchWins ==
    pure.fn = "findServerPath" =>
        LET Qualifies(k) == pure.candidates[k] \in {"named", "script", "both"}
        IN  /\ ~pure.threw
            /\ pure.path \in 0..4
            /\ pure.path = 0 => \A k \in 1..4 : ~Qualifies(k)
            /\ pure.path # 0 =>
                   /\ Qualifies(pure.path)
                   /\ \A k \in 1..(pure.path - 1) : ~Qualifies(k)

\* Two unusable manifests come first, the nested child has only a start
\* script and wins over the environment override that has the name.
C19_Witness ==
    /\ pure.fn = "findServerPath"
    /\ pure.candidates = <<"missing", "invalid", "script", "named">>
    /\ pure.path = 3

\* C20 as stated: after any stop call that returned true, the PID file is
\* absent.
C20_Original ==
    \A i \in Invocations :
        (Returned(i) /\ result[i].stop = "true") => ~pidFile.exists

\* C20: a stop call that returned true ended with its attempt to delete the
\* PID file, and the file is absent afterward unless that deletion failed.
C20_StopTrueDeletes ==
    \A i \in Invocations :
        (Returned(i) /\ result[i].stop = "true") =>
            /\ LastEvent(i) \in {"unlink", "unlink_failed"}
            /\ LastEvent(i) = "unlink" => ~pidFile.exists

\* A stop that signalled the recorded server, deleted the file and returned
\* true.
C20_Witness ==
    /\ Returned(1) /\ top[1] = "stop" /\ result[1].stop = "true"
    /\ Has(1, "SIGTERM") /\ LastEvent(1) = "unlink"
    /\ ~pidFile.exists

\* The attempts to spawn a child made so far by the current call of i.
SpawnAttempts(i) ==
    {k \in 1..Len(log[i]) : log[i][k].e \in {"spawn", "spawn_threw", "spawn_error"}}

\* C21: one call of startServer spawns at most one child: it makes at most
\* one spawn attempt, and none after its readiness wait has timed out.
C21_NoSpawnRetry ==
    \A i \in Invocations :
        /\ Cardinality(SpawnAttempts(i)) <= 1
        /\ Has(i, "timeout") =>
               \A k \in SpawnAttempts(i) : k < IndexOf(i, "timeout")

\* A start whose readiness wait timed out has returned false having spawned
\* child 2 and no other.
C21_Witness ==
    /\ Returned(1) /\ top[1] = "start" /\ ~result[1].ok
    /\ Has(1, "timeout") /\ SpawnedPid(1) = 2
    /\ nextPid = 3 /\ procState[3] = "free"

\* C22: every call of startServer, stopServer, waitForServerReady and
\* ensureServerRunning eventually returns to its caller, time advancing and
\* every health check completing or being aborted at its timeout.
C22_EveryCallReturns ==
    \A i \in Single :
        (top[i] \in {"start", "stop", "ensure"} /\ pc[i] # "idle") ~> (pc[i] = "idle")

\* C23: a failure to append child output to the log file is swallowed: an
\* append by the listeners of an invocation, failed or not, changes neither
\* the position or the result of its calls, nor the PID file, nor any
\* process, nor the effects its call has logged.
C23_AppendFailureSwallowed ==
    [][\A i \in Invocations :
          (appended'[i] # appended[i] /\ appended'[i] # "none") =>
              UNCHANGED <<pidFile, procState, nextPid, pc, top, serverProcess,
                          frame, checked, log, result>>]_vars

\* An append failed while the first start was polling for readiness.
C23_Witness ==
    /\ top[1] = "start" /\ pc[1] = "wait_poll" /\ nextPid = 3
    /\ Has(1, "write") /\ appended[1] = "failed"

\* C24: the liveness probe is non-destructive: a step of getServerPid or of
\* isServerRunning sends no termination signal and changes no process; the
\* only thing getServerPid may change is the PID file, by deleting it, and
\* isServerRunning leaves the file alone.
C24_ProbeNonDestructive ==
    [][\A i \in Invocations :
          (pc[i] \in {"getpid_read", "getpid_unlink", "is_running"}
             /\ pc'[i] # pc[i]) =>
              /\ procState' = procState
              /\ nextPid' = nextPid /\ serverProcess' = serverProcess
              /\ \A k \in 1..Len(log'[i]) : log'[i][k].e \notin {"SIGTERM", "SIGKILL"}
              /\ \/ pidFile' = pidFile
                 \/ pc[i] = "getpid_unlink" /\ pidFile.exists /\ pidFile' = Absent]_vars

\* getServerPid probed a live recorded server and returned its pid: the
\* process is alive afterwards.
C24_Witness ==
    /\ Returned(1) /\ top[1] = "getPid" /\ result[1].pid = 1
    /\ procState[1] = "alive" /\ pidFile.exists

\* C25: a start that returned true sent no termination signal to the child
\* it spawned and released it, so that the child does not die of the exit of
\* the supervisor's own process.
C25_ChildSurvivesSupervisor ==
    \A i \in Invocations :
        StartReturnedTrue(i) =>
            /\ \A k \in 1..Len(log[i]) : log[i][k].e \notin {"SIGTERM", "SIGKILL"}
            /\ SpawnedPid(i) # NoPid => pipes[SpawnedPid(i)] # EpipeDeath

\* The number that a sequence of decimal digits writes.
RECURSIVE DecimalValue(_)
DecimalValue(digits) ==
    IF digits = <<>>
    THEN 0
    ELSE 10 * DecimalValue(SubSeq(digits, 1, Len(digits) - 1)) + digits[Len(digits)]

\* The part of C26 on which the claim and its amended form agree: the
\* child's environment has every inherited variable, the four values of the
\* config under their names whatever was inherited, and PORT as decimal text.
EnvOverlay ==
    LET child == pure.childEnv
        parent == pure.parentEnv
    IN  /\ DOMAIN child = DOMAIN parent \cup Overlaid
        /\ \A n \in DOMAIN parent \ Overlaid : child[n] = parent[n]
        /\ child["DATABASE_URL"] = pure.merged["databaseUrl"]
        /\ child["REDIS_URL"] = pure.merged["redisUrl"]
        /\ child["HANDY_MASTER_SECRET"] = pure.merged["masterSecret"]
        /\ \A k \in 1..Len(child["PORT"]) : child["PORT"][k] \in 0..9
        /\ Len(child["PORT"]) > 1 => child["PORT"][1] # 0
        /\ DecimalValue(child["PORT"]) = pure.merged["port"]

\* C26 as stated: ..., and NODE_ENV is kept as inherited when the parent has
\* it set and is 'development' only when it is absent.
C26_Original ==
    pure.fn = "env" =>
        /\ EnvOverlay
        /\ "NODE_ENV" \in DOMAIN pure.parentEnv =>
               pure.childEnv["NODE_ENV"] = pure.parentEnv["NODE_ENV"]
        /\ "NODE_ENV" \notin DOMAIN pure.parentEnv =>
               pure.childEnv["NODE_ENV"] = "development"

\* C26: the child's environment is the parent's overlaid with DATABASE_URL,
\* REDIS_URL, HANDY_MASTER_SECRET and PORT from the config, PORT as decimal
\* text; NODE_ENV is kept when the parent has it set to a non-empty value and
\* is 'development' when it is absent or empty.
C26_ChildEnvironment ==
    pure.fn = "env" =>
        /\ EnvOverlay
        /\ IF "NODE_ENV" \in DOMAIN pure.parentEnv /\ pure.parentEnv["NODE_ENV"] # ""
           THEN pure.childEnv["NODE_ENV"] = pure.parentEnv["NODE_ENV"]
           ELSE pure.childEnv["NODE_ENV"] = "development"

\* The parent has every name set, PORT among them, and runs in production;
\* the caller chose port 4000.
C26_Witness ==
    /\ pure.fn = "env"
    /\ DOMAIN pure.parentEnv = EnvNames
    /\ pure.parentEnv["NODE_ENV"] = "production"
    /\ pure.childEnv["PORT"] = <<4, 0, 0, 0>>
    /\ pure.childEnv["NODE_ENV"] = "production"
    /\ pure.childEnv["DATABASE_URL"] = "caller_db"

\* C27: the stop that startServer calls as rollback signals only the child
\* that the same call of startServer spawned, never a process that another
\* invocation recorded in the PID file.
C27_RollbackSignalsOwnChild ==
    \A i \in Invocations :
        top[i] \in {"start", "ensure"} =>
            \A k \in 1..Len(log[i]) :
                log[i][k].e \in {"SIGTERM", "SIGKILL"} =>
                    log[i][k].pid = SpawnedPid(i)

\* C28: startServer never overwrites a PID record whose process is still
\* alive: no write of the PID file replaces the record of a live process that
\* the supervisor spawned, which would leave that process running and named
\* nowhere.
C28_NoLiveRecordOverwritten ==
    [][\A i \in Invocations :
          (pc[i] = "start_write" /\ pidFile' # pidFile) =>
              ~(/\ pidFile.exists
                /\ ParsePid(pidFile) \in 2..MaxPid
                /\ CanSignal(ParsePid(pidFile)))]_vars

\* C29: whenever startServer has returned false, no child that this call
\* spawned is still alive.
C29_FailedStartLeavesNoChild ==
    \A i \in Invocations :
        (Returned(i) /\ top[i] \in {"start", "ensure"} /\ ~result[i].ok
           /\ SpawnedPid(i) # NoPid) =>
            ~CanSignal(SpawnedPid(i))

\* The positions in the log of the current call of i of event e for pid p.
Events(i, e, p) == {k \in 1..Len(log[i]) : log[i][k] = Ev(e, p)}

\* C30: every termination signal of stopServer goes to the pid that
\* getServerPid returned at the beginning of that call: the pid was read from
\* the PID file and probed alive earlier in the call, SIGKILL goes to the pid
\* SIGTERM went to, and never without SIGTERM before it.
C30_SignalsRecordedPid ==
    \A i \in Invocations :
        \A k \in 1..Len(log[i]) :
            LET p == log[i][k].pid
            IN  /\ log[i][k].e \in {"SIGTERM", "SIGKILL"} =>
                       /\ \E j \in Events(i, "found", p) : j < k
                       /\ \A q \in Pids \ {p} : Events(i, "found", q) = {}
                /\ log[i][k].e = "SIGKILL" =>
                       /\ \E j \in Events(i, "SIGTERM", p) : j < k
                       /\ \A q \in Pids \ {p} : Events(i, "SIGTERM", q) = {}

\* A stop that found pid 1 recorded and alive, sent it SIGTERM, found it still
\* alive after the grace period, sent it SIGKILL and deleted the file.
C30_Witness ==
    /\ Returned(1) /\ top[1] = "stop" /\ result[1].ok
    /\ Events(1, "found", 1) # {} /\ Events(1, "SIGTERM", 1) # {}
    /\ Events(1, "SIGKILL", 1) # {} /\ LastEvent(1) = "unlink"
    /\ procState[1] = "dead"

\* C31: getServerPid never deletes a PID file whose recorded process is
\* alive: its unlink removes the file only when the recorded process does
\* not exist, whatever the existence probe answered.
C31_LiveRecordNotDeleted ==
    [][\A i \in Invocations :
          (pc[i] = "getpid_unlink" /\ pidFile.exists /\ ~pidFile'.exists) =>
              ~Live(ParsePid(pidFile))]_vars

\* The events in the analytics file as a reader gets them.
Stored == GetStoredEvents(analytics.file)

\* s is the last n elements of t, in the order of t.
IsTail(s, t, n) ==
    /\ Len(s) = n
    /\ n <= Len(t)
    /\ \A k \in 1..n : s[k] = t[Len(t) - n + k]

Smaller(a, b) == IF a <= b THEN a ELSE b

\* C32 as stated: the stored list holds at most 1000 events, and after a track
\* that stored successfully it is exactly the most recent (up to 1000) of the
\* events stored since the file was last cleared, in the order they were
\* tracked, the newest last.
C32_Original ==
    /\ Len(Stored) <= 1000
    /\ analytics.last = <<"track", "ok">> =>
           IsTail(Stored, analytics.history, Smaller(Len(analytics.history), 1000))

\* C32: the stored list holds at most 1000 events, and a track that stores
\* successfully leaves the most recent (up to 1000) of the events that could
\* be read from the file before the call followed by the new event, in that
\* order and the newest last; after a write that left the file unreadable
\* these are the new event alone.
C32_KeepsLastThousand ==
    /\ [](Len(Stored) <= 1000)
    /\ [][(analytics'.calls # analytics.calls /\ analytics'.last = <<"track", "ok">>) =>
             LET before == Append(GetStoredEvents(analytics.file), analytics.next)
                 after == GetStoredEvents(analytics'.file)
             IN  /\ analytics'.file.state = "json"
                 /\ IsTail(after, before, Smaller(Len(before), 1000))
                 /\ after[Len(after)] = analytics.next]_vars

\* Two events tracked on top of a full file: the two oldest are gone and the
\* two new ones are last.
C32_Witness ==
    /\ analytics.last = <<"track", "ok">>
    /\ Len(Stored) = 1000
    /\ Stored[1] = 3 /\ Stored[999] = 1001 /\ Stored[1000] = 1002

====
